---- MODULE Spec2Model ----
(***************************************************************************)
(* VidZen: the in-memory one-time-password service (server/otp-service.ts) *)
(* with its code generator (lib/utils.ts generateOTP) and the notifier it  *)
(* awaits (server/sendgrid-service.ts sendSms, seen from the caller as a   *)
(* promise that resolves true, resolves false, rejects, or stays pending). *)
(*                                                                         *)
(* Further parts: sendSms itself (ProdSpec), the registration form of the  *)
(* client (FormSpec) and the route handlers of videos, comments and likes  *)
(* over the database (RoutesSpec).  Each specification moves the variables *)
(* of its part and leaves the others at their initial values.              *)
(*                                                                         *)
(* Strings are TLA+ strings; the clock Date.now() is the variable now, in  *)
(* milliseconds, read at the instants of Instants and never going back.    *)
(***************************************************************************)
EXTENDS Integers, Sequences, FiniteSets, TLC

VARIABLES
    otpStore,      \* OTPService.otpStore : Map<string, OTPRecord>
    latestOtp,     \* OTPService.latestOtp : string | null
    latestMobile,  \* OTPService.latestMobile : string | null
    now,           \* Date.now()
    calls,         \* the sendOTP invocations so far, each with its position
    last,          \* history: the last call or return, when, and what was returned
    issued,        \* history: per mobile, its latest sendOTP (the code drawn, the time,
                   \* the code of the record it replaced) and the verifyOTP calls that
                   \* have returned true since
    mailService,   \* sendgrid-service.ts mailService: TRUE for a MailService with its
                   \* API key set, FALSE for null
    form,          \* RegistrationForm: the values of the mobile and otp fields and the
                   \* React state otpSent, otpVerified
    pending,       \* RegistrationForm: the mutations in flight, with what each was sent
    formLog,       \* history: the mobile whose verification set otpVerified, and the
                   \* register requests sent
    db,            \* the tables videos, comments and likes with their serial counters
    reqs           \* the invocations of the route handlers so far: route, user,
                   \* parameter, position, the row the handler read, the status sent

\* the state of server/otp-service.ts
otpVars == <<otpStore, latestOtp, latestMobile, now, calls, last, issued>>

\* the state of the rest of the application, which no method of OTPService
\* reads or writes
restOfApp == <<mailService, form, pending, formLog, db, reqs>>

\* the state of the registration form in the browser
formVars == <<form, pending, formLog>>

vars == <<otpStore, latestOtp, latestMobile, now, calls, last, issued, mailService,
          form, pending, formLog, db, reqs>>

----------------------------------------------------------------------------
(* Bounds of the model *)

\* denominator of the discretised random source: Math.random() = k / RandDen
RandDen == 1000

\* number of sendOTP invocations in one behaviour
MaxCalls == 2

\* number of requests to the routes of videos, comments and likes
MaxReqs == 2

----------------------------------------------------------------------------
(* Values *)

\* JavaScript's null (no mobile number, code or return value is this string)
Null == "null"

Mobiles == {"5550001", "5550002"}

\* mutant: the lifetime is computed in seconds, not milliseconds
TTL_Seconds == 5 * 60

\* 5 * 60 * 1000 ms, otp-service.ts line 23
TTL == 5 * 60 * 1000

\* the numerators k of the values k / RandDen that Math.random() returns
Randoms == {0, RandDen - 1}

\* the instants at which the clock is read: a start, one TTL later to the
\* millisecond, and one millisecond after that
Instants == {0, TTL, TTL + 1}

----------------------------------------------------------------------------
(* lib/utils.ts *)

DigitChar(d) == SubSeq("0123456789", d + 1, d + 1)

\* Number.prototype.toString() of a non-negative integer
RECURSIVE NumToString(_)
NumToString(n) ==
    IF n < 10 THEN DigitChar(n)
    ELSE NumToString(n \div 10) \o DigitChar(n % 10)

\* mutant: the offset 100000 is missing, the result is not padded
generateOTP_NoOffset(k) == NumToString((k * 1000000) \div RandDen)

\* mutant: a uniform draw from 000000..999999, padded with zeros to six digits
generateOTP_PaddedUniform(k) ==
    SubSeq(NumToString(1000000 + (k * 1000000) \div RandDen), 2, 7)

\* Math.floor(100000 + Math.random() * 900000).toString(), Math.random() = k / RandDen
generateOTP(k) == NumToString(100000 + (k * 900000) \div RandDen)

Codes == {generateOTP(k) : k \in Randoms}

\* what a caller may submit to verifyOTP: the codes and a non-numeric string
Candidates == Codes \cup {"12ab56"}

----------------------------------------------------------------------------
(* server/otp-service.ts *)

\* Map.set(key, value)
MapSet(map, key, value) ==
    [k \in (DOMAIN map) \cup {key} |-> IF k = key THEN value ELSE map[k]]

\* Map.delete(key)
MapDelete(map, key) == [k \in (DOMAIN map) \ {key} |-> map[k]]

\* mutant: the record is looked up but its expiry is not checked
NoLiveRecord_NoExpiryCheck(map, mobile, t) == mobile \notin DOMAIN map

\* mutant: the record counts as expired from expiresAt on (<= for <)
NoLiveRecord_Inclusive(map, mobile, t) ==
    \/ mobile \notin DOMAIN map
    \/ map[mobile].expiresAt <= t

\* line 56: !record || record.expiresAt < Date.now()
NoLiveRecord(map, mobile, t) ==
    \/ mobile \notin DOMAIN map
    \/ map[mobile].expiresAt < t

\* mutant: a pending record is not replaced
StoreAfterGenerate_KeepsFirst(map, mobile, otp, t) ==
    IF mobile \in DOMAIN map THEN map
    ELSE MapSet(map, mobile, [otp |-> otp, expiresAt |-> t + TTL])

\* mutant: an overwrite replaces the code of a present record and keeps its
\* expiresAt
StoreAfterGenerate_KeepsOldExpiry(map, mobile, otp, t) ==
    IF mobile \in DOMAIN map
    THEN MapSet(map, mobile, [otp |-> otp, expiresAt |-> map[mobile].expiresAt])
    ELSE MapSet(map, mobile, [otp |-> otp, expiresAt |-> t + TTL])

\* lines 17-31: the store after generateUniqueOTP(mobile) drew otp at time t
StoreAfterGenerate(map, mobile, otp, t) ==
    MapSet(map, mobile, [otp |-> otp, expiresAt |-> t + TTL])

\* mutant: the candidate is compared with the process-wide latest code
VerifyResult_UsesLatestOtp(map, mobile, otpToVerify, t) == otpToVerify = latestOtp

\* mutant: the expiry is ignored when the record is compared
VerifyResult_IgnoresExpiry(map, mobile, otpToVerify, t) ==
    IF mobile \notin DOMAIN map THEN FALSE
    ELSE map[mobile].otp = otpToVerify

\* mutant: a failed attempt locks the mobile out of its next attempt
VerifyResult_LockedAfterFailure(map, mobile, otpToVerify, t) ==
    IF last.op = "verifyOTP" /\ last.mobile = mobile /\ last.ret = FALSE THEN FALSE
    ELSE IF NoLiveRecord(map, mobile, t) THEN FALSE
    ELSE map[mobile].otp = otpToVerify

\* lines 52-69: the value verifyOTP returns
VerifyResult(map, mobile, otpToVerify, t) ==
    IF NoLiveRecord(map, mobile, t) THEN FALSE
    ELSE map[mobile].otp = otpToVerify

\* mutant: a failed attempt on a live record restarts its lifetime
StoreAfterVerify_ExtendsOnFailure(map, mobile, otpToVerify, t) ==
    IF NoLiveRecord(map, mobile, t) THEN map
    ELSE IF map[mobile].otp = otpToVerify THEN MapDelete(map, mobile)
    ELSE MapSet(map, mobile, [otp |-> map[mobile].otp, expiresAt |-> t + TTL])

\* mutant: a successful verification clears the whole map (Map.clear() for
\* Map.delete(mobile))
StoreAfterVerify_ClearsStore(map, mobile, otpToVerify, t) ==
    IF NoLiveRecord(map, mobile, t) THEN map
    ELSE IF map[mobile].otp = otpToVerify THEN << >>
    ELSE map

\* mutant: the record is not removed on success
StoreAfterVerify_NoDelete(map, mobile, otpToVerify, t) == map

\* mutant: a live record is removed by any comparison, matching or not
StoreAfterVerify_DeleteOnCompare(map, mobile, otpToVerify, t) ==
    IF NoLiveRecord(map, mobile, t) THEN map
    ELSE MapDelete(map, mobile)

\* mutant: an expired record is removed when it is looked up
StoreAfterVerify_DeleteExpired(map, mobile, otpToVerify, t) ==
    IF mobile \notin DOMAIN map THEN map
    ELSE IF map[mobile].expiresAt < t THEN MapDelete(map, mobile)
    ELSE IF map[mobile].otp = otpToVerify THEN MapDelete(map, mobile)
    ELSE map

\* lines 52-69: the store verifyOTP leaves
StoreAfterVerify(map, mobile, otpToVerify, t) ==
    IF NoLiveRecord(map, mobile, t) THEN map
    ELSE IF map[mobile].otp = otpToVerify THEN MapDelete(map, mobile)
    ELSE map

OtpInit ==
    /\ otpStore = << >>
    /\ latestOtp = Null
    /\ latestMobile = Null
    /\ now = 0
    /\ calls = << >>
    /\ last = [op |-> "none", mobile |-> Null, otp |-> Null, sms |-> Null, ret |-> Null,
               at |-> 0]
    /\ issued = [m \in Mobiles |-> [otp |-> Null, at |-> 0, prev |-> Null, used |-> 0]]

\* RegistrationForm as it mounts: useState(false) twice (lines 39-40), the
\* defaultValues of useForm (lines 45-52), no mutation in flight
FormInit ==
    /\ form = [mobile |-> "", otp |-> "", otpSent |-> FALSE, otpVerified |-> FALSE]
    /\ pending = [requestOtp |-> FALSE, verifyOtp |-> FALSE, register |-> FALSE,
                  mobile |-> Null]
    /\ formLog = [verified |-> Null, requests |-> {}]

\* the users that are logged in (req.user.id) and the one uploaded video, which
\* belongs to the first of them
Users == {1, 2}

VideoId == 1

VideoOwner == 1

\* the database when the server starts serving: one video (views at its default
\* 0, schema line 35 = routes.ts line 647), no comment, no like, no request yet
DbInit ==
    /\ db = [videos |-> [v \in {VideoId} |-> [userId |-> VideoOwner, views |-> 0]],
             comments |-> {}, likes |-> {}, commentSeq |-> 0, likeSeq |-> 0]
    /\ reqs = << >>

\* the process as it starts: no SENDGRID_API_KEY in the environment
\* (sendgrid-service.ts lines 12-13), so mailService stays null
Init ==
    /\ OtpInit
    /\ mailService = FALSE
    /\ FormInit
    /\ DbInit

\* mutant: generateUniqueOTP records the latest mobile but not the latest code
\* once one is set (the assignment of line 27 runs only the first time)
SendOTP_LatestOtpSetOnce(mobile, k) ==
    /\ Len(calls) < MaxCalls
    /\ LET otp == generateOTP(k) IN
        /\ otpStore' = StoreAfterGenerate(otpStore, mobile, otp, now)
        /\ latestOtp' = IF latestOtp = Null THEN otp ELSE latestOtp
        /\ latestMobile' = mobile
        /\ calls' = Append(calls, [pc |-> "await", sms |-> "pending"])
        /\ last' = [op |-> "sendOTP", mobile |-> mobile, otp |-> otp, sms |-> Null,
                    ret |-> Null, at |-> now]
        /\ issued' = [issued EXCEPT ![mobile] =
                [otp |-> otp, at |-> now, used |-> 0,
                 prev |-> IF mobile \in DOMAIN otpStore THEN otpStore[mobile].otp ELSE Null]]
    /\ UNCHANGED now
    /\ UNCHANGED restOfApp

\* mutant: sendSms is called with the code before the record is stored, and
\* the record is not in the store while the delivery is in flight
SendOTP_DeliversBeforeStoring(mobile, k) ==
    /\ Len(calls) < MaxCalls
    /\ LET otp == generateOTP(k) IN
        /\ otpStore' = otpStore
        /\ latestOtp' = otp
        /\ latestMobile' = mobile
        /\ calls' = Append(calls, [pc |-> "await", sms |-> "pending"])
        /\ last' = [op |-> "sendOTP", mobile |-> mobile, otp |-> otp, sms |-> Null,
                    ret |-> Null, at |-> now]
        /\ issued' = [issued EXCEPT ![mobile] =
                [otp |-> otp, at |-> now, used |-> 0,
                 prev |-> IF mobile \in DOMAIN otpStore THEN otpStore[mobile].otp ELSE Null]]
    /\ UNCHANGED now
    /\ UNCHANGED restOfApp

\* sendOTP(mobile) up to its await: generateUniqueOTP, the log line, the call of sendSms
SendOTP(mobile, k) ==
    /\ Len(calls) < MaxCalls
    /\ LET otp == generateOTP(k) IN
        /\ otpStore' = StoreAfterGenerate(otpStore, mobile, otp, now)
        /\ latestOtp' = otp
        /\ latestMobile' = mobile
        /\ calls' = Append(calls, [pc |-> "await", sms |-> "pending"])
        /\ last' = [op |-> "sendOTP", mobile |-> mobile, otp |-> otp, sms |-> Null,
                    ret |-> Null, at |-> now]
        /\ issued' = [issued EXCEPT ![mobile] =
                [otp |-> otp, at |-> now, used |-> 0,
                 prev |-> IF mobile \in DOMAIN otpStore THEN otpStore[mobile].otp ELSE Null]]
    /\ UNCHANGED now
    /\ UNCHANGED restOfApp

\* mutant: no try/catch around the await, a rejection leaves sendOTP
AfterAwait_NoCatch(sms) == IF sms = "throw" THEN "rejected" ELSE "resolved"

\* lines 42-48: what a sendOTP call does when its await ends with outcome sms:
\* a value (true or false) falls through the try, a rejection is caught and logged;
\* either way the call reaches its end and its promise resolves
AfterAwait(sms) == "resolved"

\* the promise sendSms(mobile, message) settles (it resolves true or false, or it
\* rejects) and sendOTP resumes after its await and returns
SendOTPResume(i, outcome) ==
    /\ i \in DOMAIN calls
    /\ calls[i].pc = "await"
    /\ calls[i].sms = "pending"
    /\ calls' = [calls EXCEPT ![i] = [pc |-> AfterAwait(outcome), sms |-> "settled"]]
    /\ last' = [op |-> "sendOTP returns", mobile |-> Null, otp |-> Null, sms |-> outcome,
                ret |-> AfterAwait(outcome), at |-> now]
    /\ UNCHANGED <<otpStore, latestOtp, latestMobile, now, issued>>
    /\ UNCHANGED restOfApp

\* mutant: the delivery is detached, sendOTP returns without awaiting it
SmsNeverSettles_Detached(i) ==
    /\ i \in DOMAIN calls
    /\ calls[i].pc = "await"
    /\ calls[i].sms = "pending"
    /\ calls' = [calls EXCEPT ![i] = [pc |-> "resolved", sms |-> "never"]]
    /\ UNCHANGED <<otpStore, latestOtp, latestMobile, now, last, issued>>
    /\ UNCHANGED restOfApp

\* the promise sendSms(mobile, message) never settles: the call stays at its await
SmsNeverSettles(i) ==
    /\ i \in DOMAIN calls
    /\ calls[i].pc = "await"
    /\ calls[i].sms = "pending"
    /\ calls' = [calls EXCEPT ![i].sms = "never"]
    /\ UNCHANGED <<otpStore, latestOtp, latestMobile, now, last, issued>>
    /\ UNCHANGED restOfApp

\* mutant: verifyOTP suspends between its comparison and its delete, so the
\* record is still in the store when the next call looks it up
VerifyOTP_AwaitBeforeDelete(mobile, otpToVerify) ==
    LET ret == VerifyResult(otpStore, mobile, otpToVerify, now) IN
    /\ otpStore' = otpStore
    /\ last' = [op |-> "verifyOTP", mobile |-> mobile, otp |-> otpToVerify, sms |-> Null,
                ret |-> ret, at |-> now]
    /\ issued' = [issued EXCEPT ![mobile].used = IF ret THEN @ + 1 ELSE @]
    /\ UNCHANGED <<latestOtp, latestMobile, now, calls>>
    /\ UNCHANGED restOfApp

\* verifyOTP(mobile, otpToVerify): no await inside, it runs to its return in one step
VerifyOTP(mobile, otpToVerify) ==
    LET ret == VerifyResult(otpStore, mobile, otpToVerify, now) IN
    /\ otpStore' = StoreAfterVerify(otpStore, mobile, otpToVerify, now)
    /\ last' = [op |-> "verifyOTP", mobile |-> mobile, otp |-> otpToVerify, sms |-> Null,
                ret |-> ret, at |-> now]
    /\ issued' = [issued EXCEPT ![mobile].used = IF ret THEN @ + 1 ELSE @]
    /\ UNCHANGED <<latestOtp, latestMobile, now, calls>>
    /\ UNCHANGED restOfApp

\* mutant: the accessor reads the record of the latest mobile, so it is null
\* once that record was consumed or has expired
getLatestOtpForDevelopment_PerRecord ==
    IF latestMobile \in DOMAIN otpStore /\ ~(otpStore[latestMobile].expiresAt < now)
    THEN otpStore[latestMobile].otp
    ELSE Null

\* lines 71-74 (served by GET /api/development-get-latest-otp): a read of the
\* field, no state change
getLatestOtpForDevelopment == latestOtp

\* mutant: a background sweep removes the records that have expired by the
\* new instant
Tick_Sweeps ==
    /\ \E t \in Instants :
        /\ t > now /\ now' = t
        /\ otpStore' = [d \in {e \in DOMAIN otpStore : ~(otpStore[e].expiresAt < t)}
                            |-> otpStore[d]]
    /\ UNCHANGED <<latestOtp, latestMobile, calls, last, issued>>
    /\ UNCHANGED restOfApp

\* time passes between operations
Tick ==
    /\ \E t \in Instants : t > now /\ now' = t
    /\ UNCHANGED <<otpStore, latestOtp, latestMobile, calls, last, issued>>
    /\ UNCHANGED restOfApp

Next ==
    \/ \E m \in Mobiles, k \in Randoms : SendOTP(m, k)
    \/ \E i \in 1..MaxCalls, o \in {"true", "false", "throw"} : SendOTPResume(i, o)
    \/ \E i \in 1..MaxCalls : SmsNeverSettles(i)
    \/ \E m \in Mobiles, c \in Candidates : VerifyOTP(m, c)
    \/ Tick

Spec == Init /\ [][Next]_vars

\* the first sendOTP of a process, for every value of the random source: the
\* specification under which the code generator is examined
FirstSendOTP(mobile, k) == Len(calls) = 0 /\ SendOTP(mobile, k)

GenNext == \E m \in Mobiles, k \in 0..(RandDen - 1) : FirstSendOTP(m, k)

GenSpec == Init /\ [][GenNext]_vars

----------------------------------------------------------------------------
(* server/sendgrid-service.ts *)

\* mutant: no try/catch in sendSms, a rejection of mailService.send leaves it
sendSms_NoCatch(service, send) ==
    IF ~service THEN "true"
    ELSE IF send = "resolved" THEN "true"
    ELSE "throw"

\* lines 20-56: how the promise of sendSms settles, given mailService and the way
\* mailService.send(params) settles: "true" (line 25) without a service, "true"
\* (line 49) after a send that resolved, "true" (line 54) from the catch after
\* a send that rejected
sendSms(service, send) ==
    IF ~service THEN "true"
    ELSE IF send = "resolved" THEN "true"
    ELSE "true"

\* the line sendSms logs on its way out (lines 24, 48, 53)
sendSmsLog(service, send) ==
    IF ~service THEN "[SIMULATED SMS]"
    ELSE IF send = "resolved" THEN "SMS (via email) sent"
    ELSE "[FALLBACK SMS]"

\* sendOTP with the production notifier: sendSms settles as the code above says
\* and sendOTP resumes after its await; the call record keeps the line logged
SendOTPResumeProd(i, send) ==
    /\ i \in DOMAIN calls
    /\ calls[i].pc = "await"
    /\ calls[i].sms = "pending"
    /\ LET outcome == sendSms(mailService, send) IN
        /\ calls' = [calls EXCEPT ![i] = [pc |-> AfterAwait(outcome),
                                          sms |-> sendSmsLog(mailService, send)]]
        /\ last' = [op |-> "sendOTP returns", mobile |-> Null, otp |-> Null,
                    sms |-> outcome, ret |-> AfterAwait(outcome), at |-> now]
    /\ UNCHANGED <<otpStore, latestOtp, latestMobile, now, issued>>
    /\ UNCHANGED restOfApp

\* mailService.send(params) never settles (line 47): possible only with a service
SendNeverSettles(i) == mailService /\ SmsNeverSettles(i)

\* the process with or without SENDGRID_API_KEY (lines 7-18)
ProdInit ==
    /\ OtpInit
    /\ mailService \in BOOLEAN
    /\ FormInit
    /\ DbInit

ProdNext ==
    \/ \E m \in Mobiles, k \in Randoms : SendOTP(m, k)
    \/ \E i \in 1..MaxCalls, send \in {"resolved", "rejected"} : SendOTPResumeProd(i, send)
    \/ \E i \in 1..MaxCalls : SendNeverSettles(i)
    \/ Tick

\* sendOTP with the notifier of sendgrid-service.ts
ProdSpec == ProdInit /\ [][ProdNext]_vars

----------------------------------------------------------------------------
(* client: the registration form (RegistrationForm) *)

\* what the user may type into the mobile field
FormMobiles == {"9876543210", "9876543211", "98765"}

\* what the otp field may hold: six characters or fewer
FormOtps == {"123456", "12"}

\* line 19: /^\d{10}$/.test(val)
mobileRegexTest(val) ==
    /\ Len(val) = 10
    /\ \A i \in 1..Len(val) :
        SubSeq(val, i, i) \in {"0", "1", "2", "3", "4", "5", "6", "7", "8", "9"}

\* the variables the form does not touch
notForm ==
    <<otpStore, latestOtp, latestMobile, now, calls, last, issued, mailService, db, reqs>>

\* the user edits the mobile field; the input is disabled when otpSent && otpVerified
\* (line 215)
TypeMobile(m) ==
    /\ ~(form.otpSent /\ form.otpVerified)
    /\ form' = [form EXCEPT !.mobile = m]
    /\ UNCHANGED <<pending, formLog>>
    /\ UNCHANGED notForm

\* the user edits the otp field, rendered when otpSent and disabled when otpVerified
\* (lines 233, 246); the development autofill form.setValue('otp', ...) of line 88
\* writes the same field
TypeOtp(c) ==
    /\ form.otpSent
    /\ ~form.otpVerified
    /\ form' = [form EXCEPT !.otp = c]
    /\ UNCHANGED <<pending, formLog>>
    /\ UNCHANGED notForm

\* lines 57-71: a click on Send OTP (enabled unless a request is pending or
\* otpVerified, line 223) with a mobile that passes the regex starts the request
ClickSendOtp ==
    /\ ~pending.requestOtp
    /\ ~form.otpVerified
    /\ mobileRegexTest(form.mobile)
    /\ pending' = [pending EXCEPT !.requestOtp = TRUE]
    /\ UNCHANGED <<form, formLog>>
    /\ UNCHANGED notForm

\* lines 70-71, 93-95: the request settles; setOtpSent(true) when it resolved
RequestOtpSettles(ok) ==
    /\ pending.requestOtp
    /\ pending' = [pending EXCEPT !.requestOtp = FALSE]
    /\ form' = IF ok THEN [form EXCEPT !.otpSent = TRUE] ELSE form
    /\ UNCHANGED formLog
    /\ UNCHANGED notForm

\* lines 98-114: a click on Verify OTP (rendered when otpSent, enabled unless a
\* verification is pending or otpVerified, line 254) with a six-character otp
\* sends the mobile and otp the fields hold at the click
ClickVerifyOtp ==
    /\ form.otpSent
    /\ ~pending.verifyOtp
    /\ ~form.otpVerified
    /\ Len(form.otp) = 6
    /\ pending' = [pending EXCEPT !.verifyOtp = TRUE, !.mobile = form.mobile]
    /\ UNCHANGED <<form, formLog>>
    /\ UNCHANGED notForm

\* lines 111-121: the verification settles; setOtpVerified(true) when the
\* response says verified
VerifyOtpSettles(result) ==
    /\ pending.verifyOtp
    /\ pending' = [pending EXCEPT !.verifyOtp = FALSE, !.mobile = Null]
    /\ IF result = "verified"
       THEN /\ form' = [form EXCEPT !.otpVerified = TRUE]
            /\ formLog' = [formLog EXCEPT !.verified = pending.mobile]
       ELSE UNCHANGED <<form, formLog>>
    /\ UNCHANGED notForm

\* lines 124-141: the form is submitted (the button is enabled unless a
\* registration is pending, line 318, and handleSubmit calls onSubmit only with
\* values that pass the schema, lines 21-33); without otpVerified onSubmit only
\* shows a toast, with it the register request is sent with data.mobile
Submit ==
    /\ ~pending.register
    /\ mobileRegexTest(form.mobile)
    /\ Len(form.otp) = 6
    /\ form.otpVerified
    /\ pending' = [pending EXCEPT !.register = TRUE]
    /\ formLog' = [formLog EXCEPT !.requests =
                        @ \cup {[mobile |-> form.mobile, verified |-> formLog.verified]}]
    /\ UNCHANGED form
    /\ UNCHANGED notForm

\* lines 135-154: the registration settles; on success form.reset(),
\* setOtpSent(false), setOtpVerified(false)
RegisterSettles(ok) ==
    /\ pending.register
    /\ pending' = [pending EXCEPT !.register = FALSE]
    /\ IF ok
       THEN /\ form' = [mobile |-> "", otp |-> "", otpSent |-> FALSE, otpVerified |-> FALSE]
            /\ formLog' = [formLog EXCEPT !.verified = Null]
       ELSE UNCHANGED <<form, formLog>>
    /\ UNCHANGED notForm

\* lines 157-163: the Login link resets the fields, not otpSent or otpVerified
HandleLoginClick ==
    /\ form' = [form EXCEPT !.mobile = "", !.otp = ""]
    /\ UNCHANGED <<pending, formLog>>
    /\ UNCHANGED notForm

FormNext ==
    \/ \E m \in FormMobiles : TypeMobile(m)
    \/ \E c \in FormOtps : TypeOtp(c)
    \/ ClickSendOtp
    \/ \E ok \in BOOLEAN : RequestOtpSettles(ok)
    \/ ClickVerifyOtp
    \/ \E result \in {"verified", "rejected", "error"} : VerifyOtpSettles(result)
    \/ Submit
    \/ \E ok \in BOOLEAN : RegisterSettles(ok)
    \/ HandleLoginClick

FormSpec == Init /\ [][FormNext]_vars

----------------------------------------------------------------------------
(* server/routes.ts: the handlers of videos, comments and likes.  A handler *)
(* runs from one await to the next in one step; each database statement is *)
(* atomic and commits on its own (no transaction is opened).               *)

\* the variables the route handlers do not touch
notRoutes ==
    <<otpStore, latestOtp, latestMobile, now, calls, last, issued, mailService,
      form, pending, formLog>>

\* what findFirst returns when no row matches (undefined)
NoRow == [found |-> FALSE, userId |-> 0, views |-> 0]

\* db.query.videos.findFirst({ where: eq(videos.id, id) })
FindVideo(d, id) ==
    IF id \in DOMAIN d.videos
    THEN [found |-> TRUE, userId |-> d.videos[id].userId, views |-> d.videos[id].views]
    ELSE NoRow

\* db.query.comments.findFirst({ where: eq(comments.id, id) })
FindComment(d, id) ==
    IF \E c \in d.comments : c.id = id
    THEN [found |-> TRUE, userId |-> (CHOOSE c \in d.comments : c.id = id).userId,
          views |-> 0]
    ELSE NoRow

\* db.query.likes.findFirst({ where: and(eq(videoId), eq(userId)) }): is there a row
LikeExists(d, videoId, userId) ==
    \E l \in d.likes : l.videoId = videoId /\ l.userId = userId

\* mutant: the foreign keys of comments.video_id and likes.video_id are not
\* enforced
VideoReferenced_NotEnforced(d, id) == FALSE

\* schema lines 44 and 52 (routes.ts lines 656 and 664), references(() => videos.id):
\* a video row that a comment or a like refers to cannot be deleted
VideoReferenced(d, id) ==
    \/ \E c \in d.comments : c.videoId = id
    \/ \E l \in d.likes : l.videoId = id

\* the request reqs[i] moves to position pc, having read row
Goto(i, pc, row) == reqs' = [reqs EXCEPT ![i].pc = pc, ![i].row = row]

\* the request reqs[i] sends its response
Respond(i, status) == reqs' = [reqs EXCEPT ![i].pc = "done", ![i].status = status]

\* a request of a logged-in user arrives (isAuthenticated has passed)
Arrive(route, user, id) ==
    /\ Len(reqs) < MaxReqs
    /\ reqs' = Append(reqs, [route |-> route, user |-> user, id |-> id, pc |-> "start",
                             row |-> NoRow, status |-> 0])
    /\ UNCHANGED db
    /\ UNCHANGED notRoutes

At(i, route, pc) == i \in DOMAIN reqs /\ reqs[i].route = route /\ reqs[i].pc = pc

\* GET /api/videos/:id, lines 186-195: the first findFirst; 404 without a row
GetVideoFind(i) ==
    /\ At(i, "GET video", "start")
    /\ LET video == FindVideo(db, reqs[i].id) IN
        IF video.found THEN Goto(i, "update", video) ELSE Respond(i, 404)
    /\ UNCHANGED db
    /\ UNCHANGED notRoutes

\* lines 198-202: update videos set views = video.views + 1, video being the row
\* read by the first findFirst
GetVideoUpdate(i) ==
    /\ At(i, "GET video", "update")
    /\ db' = IF reqs[i].id \in DOMAIN db.videos
             THEN [db EXCEPT !.videos[reqs[i].id].views = reqs[i].row.views + 1]
             ELSE db
    /\ Goto(i, "refetch", reqs[i].row)
    /\ UNCHANGED notRoutes

\* lines 205-212: the second findFirst and the response 200
GetVideoRefetch(i) ==
    /\ At(i, "GET video", "refetch")
    /\ Respond(i, 200)
    /\ UNCHANGED db
    /\ UNCHANGED notRoutes

\* POST /api/videos/:id/like, lines 410-416: does the video exist
LikeFindVideo(i) ==
    /\ At(i, "POST like", "start")
    /\ LET video == FindVideo(db, reqs[i].id) IN
        IF video.found THEN Goto(i, "check", video) ELSE Respond(i, 404)
    /\ UNCHANGED db
    /\ UNCHANGED notRoutes

\* lines 419-428: does the user like the video already; 400 if so
LikeFindLike(i) ==
    /\ At(i, "POST like", "check")
    /\ IF LikeExists(db, reqs[i].id, reqs[i].user)
       THEN Respond(i, 400)
       ELSE Goto(i, "insert", reqs[i].row)
    /\ UNCHANGED db
    /\ UNCHANGED notRoutes

\* lines 431-440: insert into likes; the insert fails on its foreign key when the
\* video is gone, which the catch answers with 500 (lines 441-444)
LikeInsert(i) ==
    /\ At(i, "POST like", "insert")
    /\ IF reqs[i].id \in DOMAIN db.videos
       THEN /\ db' = [db EXCEPT !.likeSeq = @ + 1,
                                !.likes = @ \cup {[id |-> db.likeSeq + 1,
                                                   videoId |-> reqs[i].id,
                                                   userId |-> reqs[i].user]}]
            /\ Respond(i, 201)
       ELSE /\ UNCHANGED db
            /\ Respond(i, 500)
    /\ UNCHANGED notRoutes

\* POST /api/videos/:id/comments, lines 333-339 (the body has a content)
CommentFindVideo(i) ==
    /\ At(i, "POST comment", "start")
    /\ LET video == FindVideo(db, reqs[i].id) IN
        IF video.found THEN Goto(i, "insert", video) ELSE Respond(i, 404)
    /\ UNCHANGED db
    /\ UNCHANGED notRoutes

\* lines 342-350: insert into comments; it fails on its foreign key when the
\* video is gone (500, lines 361-364)
CommentInsert(i) ==
    /\ At(i, "POST comment", "insert")
    /\ IF reqs[i].id \in DOMAIN db.videos
       THEN /\ db' = [db EXCEPT !.commentSeq = @ + 1,
                                !.comments = @ \cup {[id |-> db.commentSeq + 1,
                                                      videoId |-> reqs[i].id,
                                                      userId |-> reqs[i].user]}]
            /\ Goto(i, "refetch", reqs[i].row)
       ELSE /\ UNCHANGED db
            /\ Respond(i, 500)
    /\ UNCHANGED notRoutes

\* lines 353-360: the comment is read back and sent with 201
CommentRefetch(i) ==
    /\ At(i, "POST comment", "refetch")
    /\ Respond(i, 201)
    /\ UNCHANGED db
    /\ UNCHANGED notRoutes

\* mutant: DELETE /api/comments/:id does not compare the author with the user
DeleteCommentFind_NoOwnerCheck(i) ==
    /\ At(i, "DELETE comment", "start")
    /\ LET comment == FindComment(db, reqs[i].id) IN
        IF ~comment.found THEN Respond(i, 404)
        ELSE Goto(i, "delete", comment)
    /\ UNCHANGED db
    /\ UNCHANGED notRoutes

\* DELETE /api/comments/:id, lines 377-388: 404 without the comment, 403 when
\* it is not the user's
DeleteCommentFind(i) ==
    /\ At(i, "DELETE comment", "start")
    /\ LET comment == FindComment(db, reqs[i].id) IN
        IF ~comment.found THEN Respond(i, 404)
        ELSE IF comment.userId # reqs[i].user THEN Respond(i, 403)
        ELSE Goto(i, "delete", comment)
    /\ UNCHANGED db
    /\ UNCHANGED notRoutes

\* lines 391-393: delete from comments where id, and 200
DeleteCommentDelete(i) ==
    /\ At(i, "DELETE comment", "delete")
    /\ db' = [db EXCEPT !.comments = {c \in @ : c.id # reqs[i].id}]
    /\ Respond(i, 200)
    /\ UNCHANGED notRoutes

\* DELETE /api/videos/:id, lines 565-575: 404 without the video, 403 when it is
\* not the user's
DeleteVideoFind(i) ==
    /\ At(i, "DELETE video", "start")
    /\ LET video == FindVideo(db, reqs[i].id) IN
        IF ~video.found THEN Respond(i, 404)
        ELSE IF video.userId # reqs[i].user THEN Respond(i, 403)
        ELSE Goto(i, "deleteComments", video)
    /\ UNCHANGED db
    /\ UNCHANGED notRoutes

\* line 578: delete from comments where video_id
DeleteVideoComments(i) ==
    /\ At(i, "DELETE video", "deleteComments")
    /\ db' = [db EXCEPT !.comments = {c \in @ : c.videoId # reqs[i].id}]
    /\ Goto(i, "deleteLikes", reqs[i].row)
    /\ UNCHANGED notRoutes

\* line 579: delete from likes where video_id
DeleteVideoLikes(i) ==
    /\ At(i, "DELETE video", "deleteLikes")
    /\ db' = [db EXCEPT !.likes = {l \in @ : l.videoId # reqs[i].id}]
    /\ Goto(i, "deleteVideo", reqs[i].row)
    /\ UNCHANGED notRoutes

\* lines 582-601: delete from videos where id, then the files, then 200; the
\* delete fails while a comment or like refers to the video (500, lines 602-604)
DeleteVideoRow(i) ==
    /\ At(i, "DELETE video", "deleteVideo")
    /\ IF VideoReferenced(db, reqs[i].id)
       THEN /\ UNCHANGED db
            /\ Respond(i, 500)
       ELSE /\ db' = [db EXCEPT !.videos = [v \in DOMAIN @ \ {reqs[i].id} |-> @[v]]]
            /\ Respond(i, 200)
    /\ UNCHANGED notRoutes

VideoRoutes == {"GET video", "POST like", "POST comment", "DELETE video"}

RoutesNext ==
    \/ \E route \in VideoRoutes, user \in Users : Arrive(route, user, VideoId)
    \/ \E user \in Users, c \in 1..MaxReqs : Arrive("DELETE comment", user, c)
    \/ \E i \in 1..MaxReqs :
        \/ GetVideoFind(i) \/ GetVideoUpdate(i) \/ GetVideoRefetch(i)
        \/ LikeFindVideo(i) \/ LikeFindLike(i) \/ LikeInsert(i)
        \/ CommentFindVideo(i) \/ CommentInsert(i) \/ CommentRefetch(i)
        \/ DeleteCommentFind(i) \/ DeleteCommentDelete(i)
        \/ DeleteVideoFind(i) \/ DeleteVideoComments(i) \/ DeleteVideoLikes(i)
        \/ DeleteVideoRow(i)

RoutesSpec == Init /\ [][RoutesNext]_vars

\* every delivery meets its fate (it settles and the event loop runs the continuation
\* of the await, or it is one that never settles)
FairSpec ==
    Spec /\ \A i \in 1..MaxCalls :
        WF_vars((\E o \in {"true", "false", "throw"} : SendOTPResume(i, o)) \/ SmsNeverSettles(i))

----------------------------------------------------------------------------
(* What the properties below speak of.  They read the history variables and  *)
(* the store directly, never the operators that model the code.              *)

\* the step is the call verifyOTP(d, c)
IsVerify(d, c) == VerifyOTP(d, c)

\* sendOTP(d) has been called, and its latest call drew the code issued[d].otp
Requested(d) == issued[d].otp # Null

\* the last call or return is verifyOTP(d, c) returning r
LastVerifyWas(d, c, r) ==
    last.op = "verifyOTP" /\ last.mobile = d /\ last.otp = c /\ last.ret = r

\* verifyOTP(d, c) has just returned r: it is the last call, made at this instant
LastVerify(d, c, r) == LastVerifyWas(d, c, r) /\ last.at = now

----------------------------------------------------------------------------
\* C1: one-time use.  After sendOTP(d) issued a code, verifyOTP(d, code) called
\* before the expiry, with no true verify since, returns true and removes the
\* record; it returns true at most once per issued code; and every verifyOTP(d,
\* code) after that true one, as long as sendOTP(d) is not called again, returns
\* false.
C1_OneTimeUse ==
    [][\A d \in Mobiles, c \in Candidates :
        (IsVerify(d, c) /\ Requested(d) /\ c = issued[d].otp) =>
            /\ (issued[d].used = 0 /\ now < issued[d].at + TTL) =>
                    (last'.ret = TRUE /\ d \notin DOMAIN otpStore')
            /\ issued[d].used > 0 => last'.ret = FALSE
            /\ issued'[d].used <= 1]_vars

\* C1 witness: the issued code was verified once (true), and the same code was
\* submitted again within the TTL and rejected
C1_Witness ==
    \E d \in Mobiles :
        /\ Requested(d) /\ issued[d].used = 1
        /\ now < issued[d].at + TTL
        /\ LastVerify(d, issued[d].otp, FALSE)

\* C2: verifyOTP(d, c) returns true if and only if the store holds a record for
\* d, the record is not expired (its expiresAt is not before now) and c is the
\* very string stored; whatever the candidate, malformed ones included, the
\* call returns a boolean.
C2_VerifyIff ==
    [][\A d \in Mobiles, c \in Candidates :
        IsVerify(d, c) =>
            /\ last'.ret \in BOOLEAN
            /\ last'.ret = TRUE <=>
                    /\ d \in DOMAIN otpStore
                    /\ ~(otpStore[d].expiresAt < now)
                    /\ otpStore[d].otp = c]_vars

\* C2 witness: a non-numeric candidate was submitted against a live record and
\* the call returned false
C2_Witness ==
    \E d \in Mobiles :
        /\ d \in DOMAIN otpStore /\ now < otpStore[d].expiresAt
        /\ LastVerify(d, "12ab56", FALSE)

\* C3: verifyOTP(d, c) with c not the code issued for d returns false and
\* leaves the store as it was; the correct code submitted next, within the
\* TTL, is accepted.
C3_WrongCodeKeepsRecord ==
    [][\A d \in Mobiles, c \in Candidates :
        /\ (IsVerify(d, c) /\ Requested(d) /\ c # issued[d].otp) =>
                (last'.ret = FALSE /\ otpStore' = otpStore)
        /\ (/\ IsVerify(d, c) /\ Requested(d) /\ c = issued[d].otp
            /\ \E w \in Candidates : w # c /\ LastVerifyWas(d, w, FALSE)
            /\ issued[d].used = 0 /\ now < issued[d].at + TTL) =>
                last'.ret = TRUE]_vars

\* C3 witness: a wrong code was rejected while the record of d is pending and
\* live, and the record is still there with the issued code
C3_Witness ==
    \E d \in Mobiles, w \in Candidates :
        /\ Requested(d) /\ issued[d].used = 0 /\ w # issued[d].otp
        /\ now < issued[d].at + TTL
        /\ LastVerify(d, w, FALSE)
        /\ d \in DOMAIN otpStore /\ otpStore[d].otp = issued[d].otp

\* C4: once the expiry time of the code issued for d has passed, verifyOTP(d, c)
\* returns false for every c, the correct code included, and goes on doing so
\* until sendOTP(d) is called again (the only step that ends this condition).
PastExpiry(d) == Requested(d) /\ issued[d].at + TTL < now

C4_ExpiredStaysDead ==
    [][\A d \in Mobiles :
        PastExpiry(d) =>
            /\ \A c \in Candidates : IsVerify(d, c) => last'.ret = FALSE
            /\ \/ PastExpiry(d)'
               \/ last'.op = "sendOTP" /\ last'.mobile = d /\ Len(calls') = Len(calls) + 1]_vars

\* C4 witness: the correct, never used code was submitted after its expiry and
\* rejected
C4_Witness ==
    \E d \in Mobiles :
        /\ PastExpiry(d) /\ issued[d].used = 0
        /\ LastVerify(d, issued[d].otp, FALSE)

\* C5 as stated: a second sendOTP(d) replaces the pending record of d, the store
\* holds one record per mobile, and afterwards only the latest code is accepted,
\* the code of the replaced record being rejected.
OneRecordPerMobile ==
    /\ DOMAIN otpStore \subseteq Mobiles
    /\ \A d \in DOMAIN otpStore :
        otpStore[d] = [otp |-> issued[d].otp, expiresAt |-> issued[d].at + TTL]

C6_NeverRequested ==
    [][\A d \in Mobiles, c \in Candidates :
        (IsVerify(d, c) /\ ~Requested(d)) => last'.ret = FALSE]_vars

\* C6 witness: the live code issued for another mobile was submitted for a
\* mobile that never requested one, and rejected
C6_Witness ==
    \E d \in Mobiles, e \in Mobiles :
        /\ ~Requested(d) /\ Requested(e)
        /\ issued[e].used = 0 /\ now < issued[e].at + TTL
        /\ LastVerify(d, issued[e].otp, FALSE)

\* C7 as stated: verifyOTP returns false whenever expiresAt <= now, the instant
\* now = expiresAt included.
C7_FalseFromExpiresAt ==
    [][\A d \in Mobiles, c \in Candidates :
        (IsVerify(d, c) /\ d \in DOMAIN otpStore /\ otpStore[d].expiresAt <= now) =>
            last'.ret = FALSE]_vars

\* C7 amended: verifyOTP returns false whenever expiresAt < now; at the exact
\* instant now = expiresAt the record is still valid, and the correct code
\* returns true.
C7_ExpiryBoundary ==
    [][\A d \in Mobiles, c \in Candidates :
        (IsVerify(d, c) /\ d \in DOMAIN otpStore) =>
            /\ otpStore[d].expiresAt < now => last'.ret = FALSE
            /\ (otpStore[d].expiresAt = now /\ c = otpStore[d].otp) => last'.ret = TRUE]_vars

\* C7 witness: the correct code was submitted at the very instant the TTL ran
\* out and was accepted
C7_Witness ==
    \E d \in Mobiles :
        /\ Requested(d) /\ issued[d].used = 1
        /\ now = issued[d].at + TTL
        /\ LastVerify(d, issued[d].otp, TRUE)

\* C8: sendOTP never fails: whether sendSms resolves true, resolves false or
\* rejects, the call ends with its promise resolved, never rejected; the record
\* was stored when the call was made, before the outcome was known, and the
\* return leaves the store as it was, so the record is the same in all cases.
C8_ReturnResolves ==
    \A i \in 1..MaxCalls, o \in {"true", "false", "throw"} :
        SendOTPResume(i, o) => (calls'[i].pc = "resolved" /\ otpStore' = otpStore)

C8_StoredAtCall ==
    Len(calls') > Len(calls) =>
        /\ last'.op = "sendOTP"
        /\ last'.mobile \in DOMAIN otpStore'
        /\ otpStore'[last'.mobile] = [otp |-> last'.otp, expiresAt |-> now + TTL]

C8_SendNeverFails ==
    /\ [](\A i \in DOMAIN calls : calls[i].pc # "rejected")
    /\ [][C8_ReturnResolves /\ C8_StoredAtCall]_vars

\* C8 witness: sendSms rejected and the sendOTP call resolved all the same
C8_Witness ==
    /\ last.op = "sendOTP returns" /\ last.sms = "throw" /\ last.ret = "resolved"
    /\ \E i \in DOMAIN calls : calls[i].pc = "resolved"

\* C9 as stated (under FairSpec): every sendOTP call eventually completes, also
\* when the delivery call never returns.
Started(i) == i \in DOMAIN calls
Completed(i) == i \in DOMAIN calls /\ calls[i].pc # "await"
NeverDelivered(i) == i \in DOMAIN calls /\ calls[i].sms = "never"

C9_AlwaysCompletes ==
    \A i \in 1..MaxCalls : [](Started(i) => <>Completed(i))

\* C9 amended: sendOTP awaits the notifier.  A call completes at the step in
\* which its delivery call settles, whatever the outcome, and not before; a
\* call whose delivery call never returns stays at its await for ever.
C9_NotBeforeSettled ==
    \A i \in 1..MaxCalls : Completed(i) => calls[i].sms = "settled"

C9_SettlingCompletes ==
    \A i \in 1..MaxCalls, o \in {"true", "false", "throw"} :
        SendOTPResume(i, o) => (~Completed(i) /\ Completed(i)')

C9_NeverDeliveredNeverCompletes ==
    \A i \in 1..MaxCalls :
        NeverDelivered(i) => (NeverDelivered(i)' /\ ~Completed(i) /\ ~Completed(i)')

C9_CompletesOnceDeliverySettles ==
    /\ []C9_NotBeforeSettled
    /\ [][C9_SettlingCompletes /\ C9_NeverDeliveredNeverCompletes]_vars

\* C9 witness: a call whose delivery never returns is still at its await, its
\* record stored
C9_Witness ==
    \E i \in DOMAIN calls :
        /\ calls[i].sms = "never" /\ calls[i].pc = "await"
        /\ latestMobile \in DOMAIN otpStore

\* C10 as stated: a verifyOTP that finds an expired record deletes it.
C10_ExpiredRecordDeleted ==
    [][\A d \in Mobiles, c \in Candidates :
        (IsVerify(d, c) /\ d \in DOMAIN otpStore /\ otpStore[d].expiresAt < now) =>
            d \notin DOMAIN otpStore']_vars

\* C10 amended: a verifyOTP that finds an expired record returns false and
\* leaves the store as it was: the expired record stays in the map (verifyOTP
\* deletes on success only), ignored by every lookup.
C10_ExpiredRecordKept ==
    [][\A d \in Mobiles, c \in Candidates :
        (IsVerify(d, c) /\ d \in DOMAIN otpStore /\ otpStore[d].expiresAt < now) =>
            /\ last'.ret = FALSE
            /\ otpStore' = otpStore
            /\ d \in DOMAIN otpStore']_vars

\* C10 witness: the correct code was looked up after its expiry, rejected, and
\* the expired record is still in the store
C10_Witness ==
    \E d \in Mobiles :
        /\ d \in DOMAIN otpStore /\ otpStore[d].expiresAt < now
        /\ issued[d].used = 0
        /\ LastVerify(d, otpStore[d].otp, FALSE)

----------------------------------------------------------------------------
\* the step is the call sendOTP(d), up to its await
IsSend(d) ==
    Len(calls') = Len(calls) + 1 /\ last'.op = "sendOTP" /\ last'.mobile = d

\* the step leaves the store entry of e (its presence and its record) as it was
SameEntry(e) ==
    /\ e \in DOMAIN otpStore <=> e \in DOMAIN otpStore'
    /\ e \in DOMAIN otpStore => otpStore'[e] = otpStore[e]

\* C11: sendOTP(d) changes the store by one put, for d: afterwards d has a
\* record and every other entry is as it was.  verifyOTP(d, c) changes the
\* store by at most one remove, of d, and only when it returns true; when it
\* returns false (no record, expired record or mismatch) the whole store is as
\* it was.
C11_OneMutationPerCall ==
    [][\A d \in Mobiles :
        /\ IsSend(d) =>
            /\ d \in DOMAIN otpStore'
            /\ \A e \in Mobiles \ {d} : SameEntry(e)
        /\ \A c \in Candidates :
            IsVerify(d, c) =>
                /\ last'.ret = FALSE => otpStore' = otpStore
                /\ last'.ret = TRUE =>
                    /\ d \in DOMAIN otpStore
                    /\ d \notin DOMAIN otpStore'
                    /\ \A e \in Mobiles \ {d} : SameEntry(e)]_vars

\* C11 witness: a verifyOTP returned true and removed the record of its mobile,
\* the record of the other mobile still in the store
C11_Witness ==
    \E d \in Mobiles, e \in Mobiles :
        /\ d # e /\ Requested(d)
        /\ LastVerify(d, issued[d].otp, TRUE)
        /\ d \notin DOMAIN otpStore
        /\ e \in DOMAIN otpStore

----------------------------------------------------------------------------
\* the record that the latest sendOTP(d) stored is in the store, not yet
\* consumed and not expired
Pending(d) ==
    /\ Requested(d)
    /\ issued[d].used = 0
    /\ d \in DOMAIN otpStore
    /\ otpStore[d].otp = issued[d].otp
    /\ now <= issued[d].at + TTL

\* C12 (a failed attempt costs nothing): verifyOTP(d, w) with a wrong code on a
\* pending, unexpired record returns false and leaves the record pending, so
\* by induction any number of failures does
C12_FailureKeepsPending ==
    \A d \in Mobiles, w \in Candidates :
        IsVerify(d, w) /\ Pending(d) /\ w # issued[d].otp =>
            last'.ret = FALSE /\ Pending(d)'

\* C12 (the correct code still verifies): verifyOTP(d, c) with the stored code
\* on a pending, unexpired record returns true, whatever calls failed before
C12_CorrectStillVerifies ==
    \A d \in Mobiles, c \in Candidates :
        IsVerify(d, c) /\ Pending(d) /\ c = issued[d].otp =>
            last'.ret = TRUE

\* C12: there is no attempt lockout: while the record of d is pending and not
\* expired, after any number of failed verifyOTP(d, wrong) calls a verifyOTP
\* with the correct code returns true
C12_NoLockout == [][C12_FailureKeepsPending /\ C12_CorrectStillVerifies]_vars

\* C12 witness: at a later instant than its sendOTP, and just after a
\* verifyOTP(d, wrong code) returned false, the record of d is still pending
C12_Witness ==
    \E d \in Mobiles, w \in Codes :
        /\ Pending(d) /\ w # issued[d].otp
        /\ issued[d].at < now
        /\ LastVerify(d, w, FALSE)

----------------------------------------------------------------------------
\* the five minutes of the description, in milliseconds
FiveMinutes == 5 * 60 * 1000

\* C13 (expiry stored): the record that sendOTP(d) stores at time t has
\* expiresAt = t + 5 minutes
C13_ExpiresAtStored ==
    \A d \in Mobiles :
        IsSend(d) =>
            /\ d \in DOMAIN otpStore'
            /\ otpStore'[d].expiresAt = now + FiveMinutes

\* C13 (window): verifyOTP(d, c) with the code of the latest sendOTP(d), not
\* consumed since, returns true at every time strictly before t + 5 minutes
\* and false at every time after it
C13_Window ==
    \A d \in Mobiles, c \in Candidates :
        IsVerify(d, c) /\ Requested(d) /\ c = issued[d].otp /\ issued[d].used = 0 =>
            /\ now < issued[d].at + FiveMinutes => last'.ret = TRUE
            /\ now > issued[d].at + FiveMinutes => last'.ret = FALSE

\* C13: sendOTP(d) at time t stores expiresAt = t + 5 minutes; the correct code
\* verifies at every time strictly before t + 5 minutes (no overwrite, no
\* consumption) and fails at every time after it
C13_FiveMinuteLifetime == [][C13_ExpiresAtStored /\ C13_Window]_vars

\* C13 witness: a code issued at a time t > 0 was accepted at a later time
\* strictly before t + 5 minutes
C13_Witness ==
    \E d \in Mobiles :
        /\ Requested(d)
        /\ 0 < issued[d].at /\ issued[d].at < now /\ now < issued[d].at + FiveMinutes
        /\ LastVerify(d, issued[d].otp, TRUE)

----------------------------------------------------------------------------
\* C14 (before any request): while no sendOTP was called the accessor returns
\* null
C14_AbsentBeforeAnyRequest ==
    Len(calls) = 0 => getLatestOtpForDevelopment = Null

\* C14 (set by sendOTP only): after a sendOTP(d) step the accessor returns the
\* code that call stored, whatever d is; after every other step (verifyOTP,
\* true or false, the clock passing an expiry, a delivery settling) it returns
\* what it returned before
C14_OnlySendChanges ==
    /\ \A d \in Mobiles :
        IsSend(d) =>
            /\ getLatestOtpForDevelopment' = last'.otp
            /\ getLatestOtpForDevelopment' = otpStore'[d].otp
    /\ Len(calls') = Len(calls) =>
            getLatestOtpForDevelopment' = getLatestOtpForDevelopment

\* C14: getLatestOtpForDevelopment returns null before any sendOTP and
\* afterwards the code of the most recent sendOTP across all mobiles;
\* verifyOTP calls and expiry never change or clear it
C14_LatestCodeOfAnyMobile ==
    []C14_AbsentBeforeAnyRequest /\ [][C14_OnlySendChanges]_vars

\* C14 witness: the most recent sendOTP was for d, after one for another
\* mobile with a different code; the code of d was consumed by a verifyOTP that
\* returned true and the accessor still returns it
C14_Witness ==
    \E d \in Mobiles, e \in Mobiles :
        /\ d # e /\ Requested(d) /\ Requested(e)
        /\ latestMobile = d
        /\ issued[e].otp # issued[d].otp
        /\ LastVerify(d, issued[d].otp, TRUE)
        /\ d \notin DOMAIN otpStore
        /\ getLatestOtpForDevelopment = issued[d].otp

----------------------------------------------------------------------------
\* the three ways verifyOTP(d, c) fails, read from the store
NoRecord(d) == d \notin DOMAIN otpStore

ExpiredRecord(d) == d \in DOMAIN otpStore /\ otpStore[d].expiresAt < now

LiveMismatch(d, c) ==
    /\ d \in DOMAIN otpStore
    /\ ~(otpStore[d].expiresAt < now)
    /\ otpStore[d].otp # c

\* C15: a failing verifyOTP does not tell why it failed: with no record, with
\* an expired record and with a live record that the candidate does not match
\* it returns the same false and changes nothing (the store, the latest code
\* and mobile and the pending calls are as they were)
C15_FailuresIndistinguishable ==
    [][\A d \in Mobiles, c \in Candidates :
        IsVerify(d, c) /\ (NoRecord(d) \/ ExpiredRecord(d) \/ LiveMismatch(d, c)) =>
            /\ last'.ret = FALSE
            /\ otpStore' = otpStore
            /\ UNCHANGED <<latestOtp, latestMobile, calls, now>>]_vars

\* C15 witness: verifyOTP(d, its own code) just returned false because the
\* record of d has expired, the record is still in the store, and the other
\* mobile has no record
C15_Witness ==
    \E d \in Mobiles, e \in Mobiles :
        /\ d # e /\ Requested(d)
        /\ ExpiredRecord(d) /\ NoRecord(e)
        /\ LastVerify(d, issued[d].otp, FALSE)

----------------------------------------------------------------------------
Digits == {"0", "1", "2", "3", "4", "5", "6", "7", "8", "9"}

CharAt(code, i) == SubSeq(code, i, i)

\* the codes that were generated and are kept: the stored ones and the latest
GeneratedCodes ==
    {otpStore[d].otp : d \in DOMAIN otpStore} \cup ({latestOtp} \ {Null})

\* C16: every generated code, for every value of the random source in [0, 1),
\* has exactly six characters and each of them is an ASCII digit
C16_SixDigits ==
    \A code \in GeneratedCodes :
        /\ Len(code) = 6
        /\ \A i \in 1..Len(code) : CharAt(code, i) \in Digits

\* C16 witness: a code was generated from a random value that is neither the
\* least nor the greatest
C16_Witness ==
    \E d \in DOMAIN otpStore :
        /\ otpStore[d].otp \notin Codes
        /\ Len(otpStore[d].otp) = 6
        /\ latestOtp = otpStore[d].otp

\* the decimal value of a digit, read off the character
ValueOfDigit(ch) ==
    CASE ch = "0" -> 0 [] ch = "1" -> 1 [] ch = "2" -> 2 [] ch = "3" -> 3
      [] ch = "4" -> 4 [] ch = "5" -> 5 [] ch = "6" -> 6 [] ch = "7" -> 7
      [] ch = "8" -> 8 [] ch = "9" -> 9

\* the number a string of digits denotes
RECURSIVE ValueOfCode(_)
ValueOfCode(code) ==
    IF Len(code) = 0 THEN 0
    ELSE 10 * ValueOfCode(SubSeq(code, 1, Len(code) - 1))
         + ValueOfDigit(CharAt(code, Len(code)))

\* C17: every generated code denotes a number in 100000..999999 and does not
\* start with the digit 0: none of 000000..099999 is ever issued
C17_NoLeadingZero ==
    \A code \in GeneratedCodes :
        /\ CharAt(code, 1) # "0"
        /\ (\A i \in 1..Len(code) : CharAt(code, i) \in Digits) =>
                /\ 100000 <= ValueOfCode(code)
                /\ ValueOfCode(code) <= 999999

\* C17 witness: the least random value, 0, gave the least code, 100000
C17_Witness ==
    \E d \in DOMAIN otpStore :
        /\ otpStore[d].otp = "100000"
        /\ ValueOfCode(otpStore[d].otp) = 100000

----------------------------------------------------------------------------
\* C18 (a record changes only by being replaced or removed): a record that is
\* in the store before a step has the same code and the same expiresAt after
\* it, unless the step is sendOTP for its mobile (overwrite) or a verifyOTP for
\* its mobile that returns true (removal)
C18_ChangedOnlyAtItsEnd ==
    \A d \in DOMAIN otpStore :
        /\ d \in DOMAIN otpStore' /\ otpStore'[d] # otpStore[d] => IsSend(d)
        /\ d \notin DOMAIN otpStore' =>
                \E c \in Candidates : IsVerify(d, c) /\ last'.ret = TRUE

\* C18 (failed attempts): a verifyOTP that returns false neither extends nor
\* shortens the expiry of the record of its mobile, nor changes its code
C18_FailedVerifyKeepsExpiry ==
    \A d \in DOMAIN otpStore, c \in Candidates :
        IsVerify(d, c) /\ last'.ret = FALSE =>
            /\ d \in DOMAIN otpStore'
            /\ otpStore'[d].expiresAt = otpStore[d].expiresAt
            /\ otpStore'[d].otp = otpStore[d].otp

\* C18: a stored record is immutable between its creation and its end (a
\* successful verifyOTP or an overwrite by sendOTP for the same mobile); no
\* failed verifyOTP extends or shortens its expiry
C18_RecordImmutable ==
    [][C18_ChangedOnlyAtItsEnd /\ C18_FailedVerifyKeepsExpiry]_vars

\* C18 witness: at the last instant of its lifetime a live record was tried
\* with a non-numeric candidate, which failed, and the record has the code
\* and the expiresAt it was created with
C18_Witness ==
    \E d \in Mobiles :
        /\ Requested(d) /\ d \in DOMAIN otpStore
        /\ now = issued[d].at + FiveMinutes
        /\ LastVerify(d, "12ab56", FALSE)
        /\ otpStore[d] = [otp |-> issued[d].otp, expiresAt |-> issued[d].at + FiveMinutes]

----------------------------------------------------------------------------
\* every sendOTP called so far is still at its await: its delivery is in flight
AllInFlight ==
    /\ Len(calls) > 0
    /\ \A i \in DOMAIN calls : calls[i].pc = "await" /\ calls[i].sms = "pending"

\* the step is the end of a delivery: it settles (true, false or throw) and
\* sendOTP resumes, or it turns out never to settle
IsDeliveryEnd == Len(calls') = Len(calls) /\ calls' # calls

\* C19 (stored first): when sendOTP(d) has called the notifier and waits for
\* it, the record with the code handed to the notifier is in the store
C19_StoredBeforeDelivery ==
    \A d \in Mobiles :
        IsSend(d) =>
            /\ calls'[Len(calls')] = [pc |-> "await", sms |-> "pending"]
            /\ d \in DOMAIN otpStore'
            /\ otpStore'[d].otp = last'.otp

\* C19 (usable in flight): while every delivery is still in flight,
\* verifyOTP(d, c) with the code of the latest sendOTP(d), not consumed and not
\* expired, returns true
C19_VerifiesInFlight ==
    \A d \in Mobiles, c \in Candidates :
        /\ IsVerify(d, c) /\ AllInFlight
        /\ Requested(d) /\ c = issued[d].otp
        /\ issued[d].used = 0 /\ now <= issued[d].at + FiveMinutes
        => last'.ret = TRUE

\* C19 (delivery does not write): the completion or failure of a delivery
\* leaves the store as it was, so it neither re-creates nor alters a record
C19_DeliveryLeavesStore == IsDeliveryEnd => otpStore' = otpStore

\* C19: the record is stored before the notifier is invoked; a verifyOTP with
\* that code while the delivery is in flight returns true; the later completion
\* or failure of the delivery does not re-create or alter the record
C19_RecordIndependentOfDelivery ==
    [][C19_StoredBeforeDelivery /\ C19_VerifiesInFlight /\ C19_DeliveryLeavesStore]_vars

\* C19 witness: the one sendOTP(d) so far has just returned after its delivery
\* failed with an exception; the code was consumed by a verifyOTP while the
\* delivery was in flight, and the record has not come back
C19_Witness ==
    \E d \in Mobiles :
        /\ Len(calls) = 1
        /\ last.op = "sendOTP returns" /\ last.sms = "throw"
        /\ Requested(d) /\ issued[d].used = 1
        /\ d \notin DOMAIN otpStore

----------------------------------------------------------------------------
\* C20 (whole records): a record in the store has the code and the expiresAt
\* of one and the same sendOTP, the latest for its mobile; never the code of
\* one put with the expiry of another
C20_RecordOfOnePut ==
    \A d \in DOMAIN otpStore :
        otpStore[d] = [otp |-> issued[d].otp, expiresAt |-> issued[d].at + FiveMinutes]

\* C20 (verifyOTP sees one record): verifyOTP(d, c) returns true only for the
\* code of the latest sendOTP(d) within the lifetime that this same sendOTP
\* started
C20_VerifySeesOnePut ==
    \A d \in Mobiles, c \in Candidates :
        IsVerify(d, c) /\ last'.ret = TRUE =>
            /\ Requested(d)
            /\ c = issued[d].otp
            /\ now <= issued[d].at + FiveMinutes

\* C20 (the old code is dead after the put): once sendOTP(d) has replaced a
\* record, the code of the replaced record is rejected unless it equals the
\* new code
C20_OldCodeDeadAfterPut ==
    \A d \in Mobiles, c \in Candidates :
        IsVerify(d, c) /\ issued[d].prev # Null /\ c = issued[d].prev /\ c # issued[d].otp
            => last'.ret = FALSE

\* C20: when sendOTP(d) and verifyOTP(d, c) interleave, verifyOTP observes
\* either the old or the new record as a whole, and once the new put has
\* happened the old code no longer verifies unless it equals the new one
C20_AtomicOverwrite ==
    []C20_RecordOfOnePut /\ [][C20_VerifySeesOnePut /\ C20_OldCodeDeadAfterPut]_vars

\* C20 witness: both sendOTP(d) calls are still at their await; the second
\* replaced the record of the first with a different code at a later time, and
\* a verifyOTP with the old code has just been rejected while the new record
\* is whole in the store
C20_Witness ==
    \E d \in Mobiles :
        /\ Len(calls) = 2 /\ AllInFlight
        /\ Requested(d) /\ issued[d].prev # Null /\ issued[d].prev # issued[d].otp
        /\ issued[d].at > 0
        /\ LastVerify(d, issued[d].prev, FALSE)
        /\ d \in DOMAIN otpStore
        /\ otpStore[d].expiresAt = issued[d].at + FiveMinutes

----------------------------------------------------------------------------
\* C21: of the verifyOTP calls for one mobile that arrive together with the
\* correct code, at most one returns true, in whatever order they run: a call
\* runs its lookup, comparison and delete without suspending, so once one call
\* has returned true the record is gone and no state is left in which a second
\* call could still find it
C21_AtMostOneSuccess ==
    \A d \in Mobiles :
        /\ issued[d].used <= 1
        /\ issued[d].used = 1 => d \notin DOMAIN otpStore

\* C21 witness: two verifyOTP calls with the issued code ran back to back at
\* the very instant of the sendOTP, which is still at its await; the first
\* returned true and the second has just returned false
C21_Witness ==
    \E d \in Mobiles :
        /\ AllInFlight
        /\ Requested(d) /\ issued[d].used = 1
        /\ now = issued[d].at
        /\ LastVerify(d, issued[d].otp, FALSE)

----------------------------------------------------------------------------
\* C22 (kept after expiry): the record of the latest sendOTP(d), as long as no
\* verifyOTP has returned true for it, is in the store, whatever the time is
C22_KeptUntilConsumed ==
    \A d \in Mobiles :
        Requested(d) /\ issued[d].used = 0 =>
            /\ d \in DOMAIN otpStore
            /\ otpStore[d].otp = issued[d].otp

\* C22 (time alone): a step in which the clock advances leaves the store as it
\* was
C22_ClockLeavesStore == now' # now => otpStore' = otpStore

\* C22 (the steps that end a record): a record leaves the store or is replaced
\* by another only in a verifyOTP for its mobile that returns true or in a
\* sendOTP for its mobile
C22_EndedByVerifyOrSend ==
    \A d \in DOMAIN otpStore :
        d \notin DOMAIN otpStore' \/ otpStore'[d] # otpStore[d] =>
            \/ IsSend(d)
            \/ last'.op = "verifyOTP" /\ last'.mobile = d /\ last'.ret = TRUE
                    /\ last'.otp = otpStore[d].otp

\* C22: time passing alone never changes the store: there is no background
\* sweep, the record of a mobile stays in the map after it expires, and the
\* only steps that remove or replace a record are a verifyOTP that returns true
\* and a sendOTP, for that same mobile
C22_NoBackgroundSweep ==
    []C22_KeptUntilConsumed /\ [][C22_ClockLeavesStore /\ C22_EndedByVerifyOrSend]_vars

\* C22 witness: a record expired without being looked up (the last call was
\* the sendOTP that stored it, no verifyOTP has returned true) and is still in
\* the store
C22_Witness ==
    \E d \in DOMAIN otpStore :
        /\ otpStore[d].expiresAt < now
        /\ last.op = "sendOTP" /\ last.mobile = d
        /\ \A e \in Mobiles : issued[e].used = 0

----------------------------------------------------------------------------
\* the step is a verifyOTP(d, c) call that is not a repetition without effect
\* of the call before it
VerifyStep(d, c) ==
    last' # last /\ last'.op = "verifyOTP" /\ last'.mobile = d /\ last'.otp = c

\* C23 (frame): sendOTP(d1) and verifyOTP(d1, c) leave the entry of every
\* other mobile d2 as it was: present or not, and with the same code and
\* expiresAt
C23_OthersUntouched ==
    \A d1 \in Mobiles, d2 \in Mobiles :
        d1 # d2 /\ (IsSend(d1) \/ VerifyStep(d1, last'.otp)) =>
            /\ d2 \in DOMAIN otpStore <=> d2 \in DOMAIN otpStore'
            /\ d2 \in DOMAIN otpStore =>
                /\ otpStore'[d2].otp = otpStore[d2].otp
                /\ otpStore'[d2].expiresAt = otpStore[d2].expiresAt

\* C23 (codes do not cross): the code issued for d1 is accepted for another
\* mobile d2 only when d2 has a pending record of its own with that same string
C23_ForeignCodeOnlyIfEqual ==
    \A d1 \in Mobiles, d2 \in Mobiles :
        /\ d1 # d2 /\ Requested(d1)
        /\ VerifyStep(d2, issued[d1].otp)
        /\ last'.ret = TRUE
        => /\ Requested(d2) /\ issued[d2].otp = issued[d1].otp
           /\ d2 \in DOMAIN otpStore /\ otpStore[d2].otp = issued[d1].otp

\* C23: mobiles are isolated: sendOTP(d1) and verifyOTP(d1, c) leave the record
\* of every other mobile d2 unchanged (presence, code and expiresAt), and a
\* code issued for d1 verifies for d2 only if the pending code of d2 itself is
\* the same string
C23_MobilesIsolated == [][C23_OthersUntouched /\ C23_ForeignCodeOnlyIfEqual]_vars

\* C23 witness: d1 and d2 were issued the same string at different times; it
\* was accepted for d2, whose record is gone, and the record of d1 is in the
\* store as it was created
C23_Witness ==
    \E d1 \in Mobiles, d2 \in Mobiles :
        /\ d1 # d2 /\ Requested(d1) /\ Requested(d2)
        /\ issued[d1].otp = issued[d2].otp
        /\ issued[d1].at # issued[d2].at
        /\ LastVerify(d2, issued[d1].otp, TRUE)
        /\ d2 \notin DOMAIN otpStore
        /\ d1 \in DOMAIN otpStore
        /\ otpStore[d1] = [otp |-> issued[d1].otp, expiresAt |-> issued[d1].at + FiveMinutes]

----------------------------------------------------------------------------
\* C24 (invariant): if the store holds a record for latestMobile, the mobile of
\* the most recent sendOTP, its code is the value getLatestOtpForDevelopment
\* returns
C24_LatestRecordIsLatestOtp ==
    latestMobile \in DOMAIN otpStore =>
        otpStore[latestMobile].otp = getLatestOtpForDevelopment

\* C24 (consequence): verifyOTP(latestMobile, c) with c the value read from the
\* accessor returns true while the record of latestMobile is in the store and
\* not expired
C24_AccessorValueVerifies ==
    /\ VerifyStep(latestMobile, getLatestOtpForDevelopment)
    /\ latestMobile \in DOMAIN otpStore
    /\ ~(otpStore[latestMobile].expiresAt < now)
    => last'.ret = TRUE

\* C24: in every reachable state, if the store holds a record for latestMobile
\* its code equals the value returned by getLatestOtpForDevelopment; hence who
\* reads the accessor can verify that mobile while its record is live and not
\* consumed
C24_AccessorOpensLatestMobile ==
    []C24_LatestRecordIsLatestOtp /\ [][C24_AccessorValueVerifies]_vars

\* C24 witness: two mobiles hold live records with different codes; the code
\* of the earlier one has just been rejected for latestMobile, whose record
\* holds the value the accessor returns
C24_Witness ==
    \E e \in DOMAIN otpStore :
        /\ latestMobile \in DOMAIN otpStore /\ e # latestMobile
        /\ otpStore[e].otp # otpStore[latestMobile].otp
        /\ ~(otpStore[latestMobile].expiresAt < now)
        /\ otpStore[latestMobile].otp = getLatestOtpForDevelopment
        /\ LastVerify(latestMobile, otpStore[e].otp, FALSE)

----------------------------------------------------------------------------
\* C25: the production notifier sendSms never throws and resolves true in
\* every case (no mail service configured, sending succeeded, sending failed
\* and fell back to logging), so sendOTP never takes its catch branch with this
\* notifier: whenever a sendOTP has returned, what it got from its await is
\* the value true
C25_SendSmsAlwaysTrue ==
    /\ last.op = "sendOTP returns" => last.sms = "true"
    /\ \A i \in DOMAIN calls :
        calls[i].sms \in {"[SIMULATED SMS]", "SMS (via email) sent", "[FALLBACK SMS]"}
            => calls[i].pc = "resolved"

\* C25 witness: with a mail service configured, a send failed and was logged
\* as a fallback, another call was delivered, and the sendOTP that has just
\* returned got true
C25_Witness ==
    /\ mailService
    /\ last.op = "sendOTP returns" /\ last.sms = "true"
    /\ \E i \in DOMAIN calls, j \in DOMAIN calls :
        /\ calls[i].sms = "[FALLBACK SMS]"
        /\ calls[j].sms = "SMS (via email) sent"

----------------------------------------------------------------------------
\* C26: the registration form sends the register request only after a
\* verification has returned verified, and the mobile number it submits is the
\* one that was verified: every register request sent carries the mobile of
\* the verification that set otpVerified
C26_RegistersVerifiedMobile ==
    \A r \in formLog.requests :
        /\ r.verified # Null
        /\ r.mobile = r.verified

----------------------------------------------------------------------------
\* the likes of user u for the video
LikesOf(u) == {l \in db.likes : l.videoId = VideoId /\ l.userId = u}

\* C27: a user has at most one like per video, under every interleaving of
\* the like requests: in every reachable state the likes table holds at most
\* one row for a user and the video
C27_AtMostOneLike == \A u \in Users : Cardinality(LikesOf(u)) <= 1

\* the requests that were answered with the status
Answered(route, status) ==
    {i \in DOMAIN reqs : reqs[i].route = route /\ reqs[i].status = status}

\* every request that arrived has been answered
AllAnswered == \A i \in DOMAIN reqs : reqs[i].pc = "done"

\* C28: each successful GET /api/videos/:id increases the view count of the
\* video by exactly one: once the n requests that arrived are answered, the
\* count has grown from 0 by the number of those answered 200, concurrent or
\* not
C28_ViewsCountFetches ==
    AllAnswered /\ VideoId \in DOMAIN db.videos =>
        db.videos[VideoId].views = Cardinality(Answered("GET video", 200))

----------------------------------------------------------------------------
\* the step is one of request i
StepOf(i) == i \in DOMAIN reqs /\ reqs'[i] # reqs[i]

\* C29 (only the owner deletes): a comment leaves the table only in a step of
\* a DELETE comment request of its author or of a DELETE video request of the
\* owner of the video; a like or the video itself only in a step of a DELETE
\* video request of the owner; and a step that answers 403, like every step of
\* a DELETE video request of another user, leaves the database as it was
C29_OnlyOwnerDeletes ==
    \A i \in DOMAIN reqs :
        StepOf(i) =>
            /\ \A c \in db.comments \ db'.comments :
                \/ reqs[i].route = "DELETE comment" /\ reqs[i].user = c.userId
                \/ reqs[i].route = "DELETE video" /\ reqs[i].user = VideoOwner
            /\ db.likes \ db'.likes # {} \/ DOMAIN db'.videos # DOMAIN db.videos =>
                    reqs[i].route = "DELETE video" /\ reqs[i].user = VideoOwner
            /\ reqs'[i].status = 403 => db' = db
            /\ reqs[i].route = "DELETE video" /\ reqs[i].user # VideoOwner =>
                    db' = db /\ reqs'[i].status \in {403, 404}

\* C29 (nothing left behind): once a DELETE /api/videos/:id has answered 200,
\* the video is gone and no comment and no like refers to it, whatever
\* requests of other users ran between its steps or run afterwards
C29_NothingRefersToDeleted ==
    Answered("DELETE video", 200) # {} =>
        /\ VideoId \notin DOMAIN db.videos
        /\ \A c \in db.comments : c.videoId # VideoId
        /\ \A l \in db.likes : l.videoId # VideoId

\* C29: only the owner can delete a video or a comment (another user gets 403
\* and nothing is changed), and after DELETE /api/videos/:id returns 200 no
\* comment or like referring to that video remains, also when another user
\* adds a comment or a like while the steps of the delete are running
C29_OwnerDeletesCleanly ==
    []C29_NothingRefersToDeleted /\ [][C29_OnlyOwnerDeletes]_vars

\* C29 witness: the owner's DELETE video has answered 200 while a POST comment
\* of the other user was between its steps: that request had found the video,
\* and its insert was then refused
C29_Witness ==
    \E i \in Answered("DELETE video", 200), j \in Answered("POST comment", 500) :
        /\ reqs[i].user = VideoOwner
        /\ reqs[j].user # VideoOwner
        /\ reqs[j].row.found

====
